---- MODULE Spec2Model ----
(***************************************************************************)
(* Model of src/paginator.py: the reaction driven paginator                *)
(* (_PaginatorBase, TextPaginator and the registration of FieldPaginator). *)
(*                                                                         *)
(* Strings are sequences of one-character strings.  The ordered dict       *)
(* `pages` is a sequence of entries [key, pages]; a key is the tuple       *)
(* <<title, footer, count>>.  Message ids are positive integers, None is   *)
(* NoMessage.                                                              *)
(***************************************************************************)
EXTENDS Integers, Sequences, FiniteSets, TLC

VARIABLES
    pages,           \* self.pages: ordered dict, as a sequence of entries
    category,        \* self.category
    current,         \* self.current
    is_active,       \* self.is_active
    message,         \* self.message: id of the bound message, or NoMessage
    delete_message,  \* self.delete_message (kwarg)
    initial_embed,   \* TRUE iff the kwarg "embed" was given
    max_size,        \* TextPaginator.max_size
    separator,       \* TextPaginator.separator
    pc,              \* position of the start() coroutine
    error,           \* exception raised by the most recent operation
    deleted,         \* the bound message no longer exists on the platform
    shown,           \* embed displayed by the bound message
    nSent,           \* number of messages created by ctx.send
    stopped,         \* history: stop() has completed at least once
    lastOp,          \* history: the most recent operation
    lastEmoji,       \* history: emoji of the most recent reaction event
    lastText,        \* history: text given to the most recent add_category
    prevCategory,    \* history: self.category before the most recent operation
    prevCurrent,     \* history: self.current before the most recent operation
    prevActive,      \* history: self.is_active before the most recent operation
    calls,           \* history: platform calls made by the most recent operation
    max_count,       \* FieldPaginator.max_count
    lastFields,      \* history: fields given to the most recent registration
    other,           \* the attributes of a second, concurrent session
    focus,           \* which of the two sessions the attributes above belong to
    inbox            \* reaction events dispatched and not yet seen by a session

vars == <<pages, category, current, is_active, message, delete_message,
          initial_embed, max_size, separator, pc, error, deleted, shown,
          nSent, stopped, lastOp, lastEmoji, lastText, prevCategory,
          prevCurrent, prevActive, calls, max_count, lastFields, other,
          focus, inbox>>

----------------------------------------------------------------------------
(* Bounds *)

\* longest text given to add_category in the splitter specification
MaxLen == 4
\* largest max_size in the splitter specification
MaxSize == 3
\* most categories registered before start()
MaxCats == 3
\* most messages created by ctx.send during one session
MaxSent == 3
\* depth at which the interpreter gives up a recursion that does not shrink
RecursionLimit == 2
\* largest max_count in the field specification
MaxCount == 2
\* longest field list given to a FieldPaginator
MaxFields == 5

----------------------------------------------------------------------------
(* Strings *)

NL == "\n"
SP == " "
CM == ","

\* characters of the texts
Alphabet == {"a", SP, NL, CM}

\* str.strip() with no argument removes leading and trailing whitespace
Whitespace == {SP, NL}

\* the separators a TextPaginator is configured with (default "\n")
Separators == {<<NL>>, <<CM>>}

RECURSIVE LStrip(_)
LStrip(s) ==
    IF s = <<>> THEN <<>>
    ELSE IF Head(s) \in Whitespace THEN LStrip(Tail(s)) ELSE s

RECURSIVE RStrip(_)
RStrip(s) ==
    IF s = <<>> THEN <<>>
    ELSE IF s[Len(s)] \in Whitespace THEN RStrip(SubSeq(s, 1, Len(s) - 1)) ELSE s

\* text.strip()
Strip(s) == RStrip(LStrip(s))

\* s.startswith(sep)
StartsWith(s, sep) ==
    /\ Len(sep) <= Len(s)
    /\ SubSeq(s, 1, Len(sep)) = sep

\* s.split(sep) for a non-empty sep: leftmost, non-overlapping occurrences
RECURSIVE SplitFrom(_, _, _)
SplitFrom(s, sep, acc) ==
    IF s = <<>> THEN <<acc>>
    ELSE IF StartsWith(s, sep)
         THEN <<acc>> \o SplitFrom(SubSeq(s, Len(sep) + 1, Len(s)), sep, <<>>)
         ELSE SplitFrom(Tail(s), sep, Append(acc, Head(s)))

Split(s, sep) == SplitFrom(s, sep, <<>>)

\* sep.join(parts)
RECURSIVE Join(_, _)
Join(parts, sep) ==
    IF parts = <<>> THEN <<>>
    ELSE IF Len(parts) = 1 THEN parts[1]
    ELSE parts[1] \o sep \o Join(Tail(parts), sep)

\* parts[:count]; a slice ends at the end of the list
Take(parts, count) ==
    SubSeq(parts, 1, IF count < Len(parts) THEN count ELSE Len(parts))

\* parts[count:]
Drop(parts, count) == SubSeq(parts, count + 1, Len(parts))

----------------------------------------------------------------------------
(* TextPaginator.cut_text *)

\* the while loop of cut_text with a test that is off by one
RECURSIVE FitCount_loose(_, _, _, _)
FitCount_loose(split_text, sep, size, count) ==
    IF Len(Join(Take(split_text, count), sep)) > size + 1
    THEN FitCount_loose(split_text, sep, size, count - 1)
    ELSE count

\* the while loop of cut_text: the largest count whose joined prefix fits
RECURSIVE FitCount(_, _, _, _)
FitCount(split_text, sep, size, count) ==
    IF Len(Join(Take(split_text, count), sep)) > size
    THEN FitCount(split_text, sep, size, count - 1)
    ELSE count

\* n copies of the empty page
RECURSIVE EmptyPages(_)
EmptyPages(n) == IF n = 0 THEN <<>> ELSE <<(<<>>)>> \o EmptyPages(n - 1)

\* The pages cut_text appends to the category, and whether it raises.
\* A call whose count is 0 appends "" and recurses on the same text: the
\* recursion never shrinks and ends in RecursionError at the interpreter's
\* depth limit, each level having appended one empty page.
RECURSIVE cut_text(_, _, _)
cut_text(text, sep, size) ==
    LET split_text == Split(Strip(text), sep)
        count      == FitCount(split_text, sep, size, Len(split_text))
        first      == Join(Take(split_text, count), sep)
        leftovers  == Join(Drop(split_text, count), sep)
    IN  IF Len(leftovers) > size
        THEN IF count = 0
             THEN [appended |-> EmptyPages(RecursionLimit), raised |-> TRUE]
             ELSE LET rest == cut_text(leftovers, sep, size)
                  IN  [appended |-> <<first>> \o rest.appended,
                       raised   |-> rest.raised]
        ELSE [appended |-> <<first, leftovers>>, raised |-> FALSE]

----------------------------------------------------------------------------
(* _PaginatorBase: the category mapping *)

\* self.message is None
NoMessage == 0
\* id of ctx.message, the message that invoked the command
CtxMessage == 1
\* id of the message passed as the kwarg "message"
GivenMessage == 2

\* STANDART_EMOJIS, in the format top, previous, stop, next, end
Emojis == <<"top", "previous", "stop", "next", "end">>

\* the emojis a reaction event can carry: the configured ones and another
EventEmojis == {Emojis[i] : i \in 1..5} \cup {"other"}

\* the users a reaction event can come from; ctx.author is "author"
Users == {"author", "other"}

\* the messages a reaction event can be on: the bound one and another
EventMessages == {CtxMessage, message}

\* self._count
_count == Len(pages)

\* self._get_page(count); the caller checks count < _count (IndexError)
_get_page(count) == pages[count + 1].key

\* self.pages[self._get_page(count)]
PageList(count) == pages[count + 1].pages

\* d[key] = value on an insertion ordered dict
DictSet(d, key, value) ==
    IF \E i \in 1..Len(d) : d[i].key = key
    THEN [i \in 1..Len(d) |->
            IF d[i].key = key THEN [key |-> key, pages |-> value] ELSE d[i]]
    ELSE Append(d, [key |-> key, pages |-> value])

\* the loop of add_from_dict over data.items()
RECURSIVE AddEntries(_, _)
AddEntries(d, data) ==
    IF data = <<>> THEN d
    ELSE AddEntries(
            DictSet(d, Append(data[1].category, Len(d)), data[1].texts),
            Tail(data))

----------------------------------------------------------------------------
(* Inputs *)

\* every text of at most MaxLen characters
Texts == UNION {[1..n -> Alphabet] : n \in 0..MaxLen}

\* the texts registered before a session: one that fits a page and one
\* that is cut into three pages
NavTexts == {<<"a">>, <<"a", NL, "a", NL, "a">>}

\* the mappings given to add_from_dict before a session
NavDicts ==
    {<< [category |-> <<"A", "F">>, texts |-> <<>>] >>,
     << [category |-> <<"A", "F">>, texts |-> << <<"a">> >>],
        [category |-> <<"B", "F">>, texts |-> << <<"a">>, <<"a">> >>] >>}

\* the texts registered in the registration specification: NavTexts and
\* one whose only token is longer than a page
RegTexts == NavTexts \cup {<<"a", "a">>}

\* the embeds given to add_embed: one with a title, a description and a
\* footer, and Embed() with neither title nor description
NavEmbeds ==
    {[title |-> "A", footer |-> "F", hasDescription |-> TRUE,
      description |-> <<"a">>],
     [title |-> "Empty", footer |-> "Empty", hasDescription |-> FALSE,
      description |-> <<>>]}

\* embeds: the cursor a generated embed renders, the kwarg "embed", none
InitialEmbed == <<-1, -1>>
NoEmbed == <<-2, -2>>

----------------------------------------------------------------------------
(* History *)

Record(op, emoji, platform) ==
    /\ lastOp' = op
    /\ lastEmoji' = emoji
    /\ prevCategory' = category
    /\ prevCurrent' = current
    /\ prevActive' = is_active
    /\ calls' = platform

config == <<delete_message, initial_embed, max_size, separator>>
fieldside == <<max_count, lastFields>>
concurrent == <<other, focus, inbox>>
cursor == <<category, current>>
session == <<is_active, message, pc, deleted, shown, nSent, stopped>>

----------------------------------------------------------------------------
(* Registration *)

\* add_category whose key lost its ordinal: key = (title, footer, 0)
add_category_no_ordinal(description, title, footer) ==
    /\ UNCHANGED <<fieldside, concurrent>>
    /\ pc = "idle"
    /\ _count < MaxCats
    /\ LET key == <<title, footer, 0>>
           cut == cut_text(description, separator, max_size)
       IN  /\ pages' = DictSet(DictSet(pages, key, <<>>), key, cut.appended)
           /\ error' = IF cut.raised THEN "cut_text:RecursionError" ELSE "none"
    /\ lastText' = description
    /\ Record("add_category", "none", <<>>)
    /\ UNCHANGED <<config, cursor, session>>

\* TextPaginator.add_category(description, title, footer)
add_category(description, title, footer) ==
    /\ UNCHANGED <<fieldside, concurrent>>
    /\ pc = "idle"
    /\ _count < MaxCats
    /\ LET key == <<title, footer, _count>>
           cut == cut_text(description, separator, max_size)
       IN  /\ pages' = DictSet(DictSet(pages, key, <<>>), key, cut.appended)
           /\ error' = IF cut.raised THEN "cut_text:RecursionError" ELSE "none"
    /\ lastText' = description
    /\ Record("add_category", "none", <<>>)
    /\ UNCHANGED <<config, cursor, session>>

\* TextPaginator.add_embed(embed): embed.description is a text or, when
\* hasDescription is FALSE, Embed.Empty, which has no strip()
add_embed(embed) ==
    /\ UNCHANGED <<fieldside, concurrent>>
    /\ pc = "idle"
    /\ _count < MaxCats
    /\ LET key == <<embed.title, embed.footer, _count>>
           cut == cut_text(embed.description, separator, max_size)
       IN  IF embed.hasDescription
           THEN /\ pages' = DictSet(DictSet(pages, key, <<>>), key, cut.appended)
                /\ error' = IF cut.raised THEN "cut_text:RecursionError"
                                          ELSE "none"
           ELSE /\ pages' = DictSet(pages, key, <<>>)
                /\ error' = "cut_text:AttributeError"
    /\ lastText' = embed.description
    /\ Record("add_embed", "none", <<>>)
    /\ UNCHANGED <<config, cursor, session>>

\* TextPaginator.add_from_dict(data)
add_from_dict(data) ==
    /\ UNCHANGED <<fieldside, concurrent>>
    /\ pc = "idle"
    /\ _count + Len(data) <= MaxCats
    /\ pages' = AddEntries(pages, data)
    /\ error' = "none"
    /\ Record("add_from_dict", "none", <<>>)
    /\ UNCHANGED <<config, cursor, session, lastText>>

----------------------------------------------------------------------------
(* FieldPaginator *)

\* the field lists: n fields, told apart by their position in the list
FieldLists == {[i \in 1..n |-> i] : n \in 0..MaxFields}

\* the mappings given to FieldPaginator.add_from_dict: one or two entries
FieldDicts ==
    {<< [category |-> <<"A", "F">>, fields |-> f] >> : f \in FieldLists}
    \cup {<< [category |-> <<"A", "F">>, fields |-> <<1>>],
              [category |-> <<"B", "F">>, fields |-> f] >> : f \in FieldLists}

\* n copies of the page [separated]
RECURSIVE Repeated(_, _)
Repeated(page, n) == IF n = 0 THEN <<>> ELSE <<page>> \o Repeated(page, n - 1)

\* FieldPaginator.split_fields(category, fields): the pages it appends to
\* the category and whether it raises.  Each page is the list [separated].
\* The recursive call passes the whole list again: it appends the same
\* page at every level until the interpreter raises RecursionError.
split_fields(fields, limit) ==
    LET separated == Take(fields, limit)
    IN  IF Len(Drop(fields, limit)) > limit
        THEN [appended |-> Repeated(<<separated>>, RecursionLimit),
              raised |-> TRUE]
        ELSE [appended |-> << <<separated>> >>, raised |-> FALSE]

\* FieldPaginator.add_category(*fields, title, footer): split_fields gets
\* title where the key belongs, and self.pages[title] raises KeyError
FieldPaginator_add_category(fieldlist, title, footer) ==
    /\ pc = "idle"
    /\ _count < MaxCats
    /\ pages' = DictSet(pages, <<title, footer, _count>>, <<>>)
    /\ error' = "split_fields:KeyError"
    /\ lastFields' = fieldlist
    /\ Record("FieldPaginator.add_category", "none", <<>>)
    /\ UNCHANGED <<config, cursor, session, lastText, max_count, concurrent>>

\* FieldPaginator.add_embed(embed)
FieldPaginator_add_embed(embed) ==
    /\ pc = "idle"
    /\ _count < MaxCats
    /\ LET key == <<embed.title, embed.footer, _count>>
           split == split_fields(embed.fields, max_count)
       IN  /\ pages' = DictSet(DictSet(pages, key, <<>>), key, split.appended)
           /\ error' = IF split.raised THEN "split_fields:RecursionError"
                                       ELSE "none"
    /\ lastFields' = embed.fields
    /\ Record("FieldPaginator.add_embed", "none", <<>>)
    /\ UNCHANGED <<config, cursor, session, lastText, max_count, concurrent>>

\* the loop of FieldPaginator.add_from_dict, which ends at the first
\* split_fields that raises
RECURSIVE AddFieldEntries(_, _, _)
AddFieldEntries(d, data, limit) ==
    IF data = <<>> THEN [pages |-> d, raised |-> FALSE]
    ELSE LET key   == Append(data[1].category, Len(d))
             split == split_fields(data[1].fields, limit)
             next  == DictSet(DictSet(d, key, <<>>), key, split.appended)
         IN  IF split.raised
             THEN [pages |-> next, raised |-> TRUE]
             ELSE AddFieldEntries(next, Tail(data), limit)

\* FieldPaginator.add_from_dict(data)
FieldPaginator_add_from_dict(data) ==
    /\ pc = "idle"
    /\ _count + Len(data) <= MaxCats
    /\ LET added == AddFieldEntries(pages, data, max_count)
       IN  /\ pages' = added.pages
           /\ error' = IF added.raised THEN "split_fields:RecursionError"
                                       ELSE "none"
    /\ lastFields' = data[Len(data)].fields
    /\ Record("FieldPaginator.add_from_dict", "none", <<>>)
    /\ UNCHANGED <<config, cursor, session, lastText, max_count, concurrent>>

----------------------------------------------------------------------------
(* Rendering and cleanup *)

\* TextPaginator.generate_embed() returns: _get_page(category) and
\* page[current] are both in range (IndexError otherwise)
CanRender(ci, pi) ==
    /\ ci < _count
    /\ pi < Len(PageList(ci))

\* the platform call stop() makes
StopPlatform ==
    IF message # NoMessage
    THEN << <<IF delete_message THEN "delete" ELSE "clear_reactions", message>> >>
    ELSE <<>>

\* whether the bound message is gone once stop() has run
StopDeleted == deleted \/ (message # NoMessage /\ delete_message)

\* _check() that lost its test of the user
_check_any_user(emoji, user, msg) ==
    /\ \E i \in 1..5 : emoji = Emojis[i]
    /\ message # NoMessage
    /\ msg = message

\* _check() that lost its comparison of the message ids
_check_any_message(emoji, user, msg) ==
    /\ \E i \in 1..5 : emoji = Emojis[i]
    /\ user = "author"
    /\ message # NoMessage

\* _PaginatorBase._check(reaction, user)
_check(emoji, user, msg) ==
    /\ \E i \in 1..5 : emoji = Emojis[i]
    /\ user = "author"
    /\ message # NoMessage
    /\ msg = message

\* pagination() whose next-page branch lost its test current < page_count
pagination_unclamped(emoji) ==
    IF _count = 0
    THEN [raised |-> TRUE, category |-> category, current |-> current,
          stop |-> FALSE]
    ELSE LET category_count == _count - 1
             page_count == Len(PageList(category)) - 1
         IN  IF emoji = Emojis[1] /\ 0 < category
             THEN [raised |-> FALSE, category |-> category - 1, current |-> 0,
                   stop |-> FALSE]
             ELSE IF emoji = Emojis[2] /\ 0 < current
             THEN [raised |-> FALSE, category |-> category,
                   current |-> current - 1, stop |-> FALSE]
             ELSE IF emoji = Emojis[3]
             THEN [raised |-> FALSE, category |-> category,
                   current |-> current, stop |-> TRUE]
             ELSE IF emoji = Emojis[4]
             THEN [raised |-> FALSE, category |-> category,
                   current |-> current + 1, stop |-> FALSE]
             ELSE IF emoji = Emojis[5] /\ category < category_count
             THEN [raised |-> FALSE, category |-> category + 1, current |-> 0,
                   stop |-> FALSE]
             ELSE [raised |-> FALSE, category |-> category,
                   current |-> current, stop |-> FALSE]

\* _PaginatorBase.pagination(emoji): the cursor it leaves, whether it ran
\* stop(), whether _get_page raised IndexError
pagination(emoji) ==
    IF _count = 0
    THEN [raised |-> TRUE, category |-> category, current |-> current,
          stop |-> FALSE]
    ELSE LET category_count == _count - 1
             page_count == Len(PageList(category)) - 1
         IN  IF emoji = Emojis[1] /\ 0 < category
             THEN [raised |-> FALSE, category |-> category - 1, current |-> 0,
                   stop |-> FALSE]
             ELSE IF emoji = Emojis[2] /\ 0 < current
             THEN [raised |-> FALSE, category |-> category,
                   current |-> current - 1, stop |-> FALSE]
             ELSE IF emoji = Emojis[3]
             THEN [raised |-> FALSE, category |-> category,
                   current |-> current, stop |-> TRUE]
             ELSE IF emoji = Emojis[4] /\ current < page_count
             THEN [raised |-> FALSE, category |-> category,
                   current |-> current + 1, stop |-> FALSE]
             ELSE IF emoji = Emojis[5] /\ category < category_count
             THEN [raised |-> FALSE, category |-> category + 1, current |-> 0,
                   stop |-> FALSE]
             ELSE [raised |-> FALSE, category |-> category,
                   current |-> current, stop |-> FALSE]

----------------------------------------------------------------------------
(* The session *)

\* what Message.edit returns: the edited message or, in the library
\* releases where edit returns nothing, None
EditReturns == {NoMessage, GivenMessage}

\* start(): is_active = True, paginate_message(), then the first wait
start ==
    /\ UNCHANGED <<fieldside, concurrent>>
    /\ pc = "idle"
    /\ is_active' = TRUE
    /\ UNCHANGED <<pages, config, cursor, deleted, stopped, lastText>>
    /\ IF ~initial_embed /\ ~CanRender(category, current)
       THEN /\ pc' = "raised"
            /\ error' = "generate_embed:IndexError"
            /\ Record("start", "none", <<>>)
            /\ UNCHANGED <<message, shown, nSent>>
       ELSE LET embed == IF initial_embed THEN InitialEmbed ELSE cursor
            IN  /\ error' = "none"
                /\ IF message # NoMessage
                   THEN \E returned \in EditReturns :
                          /\ message' = returned
                          /\ shown' = IF returned = NoMessage THEN NoEmbed ELSE embed
                          /\ nSent' = nSent
                          /\ pc' = IF returned = NoMessage THEN "returned" ELSE "waiting"
                          /\ Record("start", "none",
                                 << <<"edit", message>>,
                                    <<"add_reactions",
                                      IF returned = NoMessage THEN CtxMessage
                                                              ELSE returned>> >>)
                   ELSE /\ message' = GivenMessage + nSent + 1
                        /\ shown' = embed
                        /\ nSent' = nSent + 1
                        /\ pc' = "waiting"
                        /\ Record("start", "none",
                               << <<"send", GivenMessage + nSent + 1>>,
                                  <<"add_reactions", GivenMessage + nSent + 1>> >>)

\* the body of the loop of start() for an event wait_for returned: pagination,
\* remove_reaction, generate_embed, ctx.send, then the loop test
Handle(emoji) ==
    LET p        == pagination(emoji)
        active1  == IF p.stop THEN FALSE ELSE is_active
        deleted1 == IF p.stop THEN StopDeleted ELSE deleted
        stopCall == IF p.stop THEN StopPlatform ELSE <<>>
        removal  == << <<"remove_reaction", message>> >>
    IN  /\ UNCHANGED <<pages, config, message, shown, lastText>>
        /\ IF p.raised
           THEN /\ pc' = "raised"
                /\ error' = "pagination:IndexError"
                /\ Record("reaction", emoji, <<>>)
                /\ UNCHANGED <<cursor, is_active, deleted, nSent, stopped>>
           ELSE /\ category' = p.category
                /\ current' = p.current
                /\ is_active' = active1
                /\ deleted' = deleted1
                /\ stopped' = (stopped \/ p.stop)
                /\ IF deleted1
                   THEN /\ pc' = "raised"
                        /\ error' = "remove_reaction:NotFound"
                        /\ nSent' = nSent
                        /\ Record("reaction", emoji, stopCall \o removal)
                   ELSE IF ~CanRender(p.category, p.current)
                   THEN /\ pc' = "raised"
                        /\ error' = "generate_embed:IndexError"
                        /\ nSent' = nSent
                        /\ Record("reaction", emoji, stopCall \o removal)
                   ELSE /\ pc' = IF active1 THEN "waiting" ELSE "returned"
                        /\ error' = "none"
                        /\ nSent' = nSent + 1
                        /\ Record("reaction", emoji,
                               stopCall \o removal
                               \o << <<"send", GivenMessage + nSent + 1>> >>)

\* bot.wait_for with check=self._check gets a reaction_add event while
\* start() waits; the bound message may have been deleted after the
\* reaction was added
Receive(emoji, user, msg) ==
    /\ pc = "waiting"
    /\ IF _check(emoji, user, msg)
       THEN /\ nSent < MaxSent
            /\ Handle(emoji)
       ELSE /\ Record("ignored", emoji, <<>>)
            /\ error' = "none"
            /\ UNCHANGED <<pages, config, cursor, session, lastText>>

\* a reaction_add event reaches the one session there is
ReactionAdd(emoji, user, msg) ==
    /\ Receive(emoji, user, msg)
    /\ UNCHANGED <<fieldside, concurrent>>

\* the except branch of start() that swallows TimeoutError and waits again
Timeout_retry ==
    /\ UNCHANGED <<fieldside, concurrent>>
    /\ pc = "waiting"
    /\ error' = "none"
    /\ Record("timeout", "none", <<>>)
    /\ UNCHANGED <<pages, config, cursor, session, lastText>>

\* bot.wait_for raises TimeoutError: the except branch runs stop()
Timeout ==
    /\ UNCHANGED <<fieldside, concurrent>>
    /\ pc = "waiting"
    /\ is_active' = FALSE
    /\ deleted' = StopDeleted
    /\ stopped' = TRUE
    /\ pc' = "returned"
    /\ error' = "none"
    /\ Record("timeout", "none", StopPlatform)
    /\ UNCHANGED <<pages, config, cursor, message, shown, nSent, lastText>>

\* stop() called from outside the loop of start()
stop ==
    /\ UNCHANGED <<fieldside, concurrent>>
    /\ pc \in {"waiting", "returned"}
    /\ is_active' = FALSE
    /\ deleted' = StopDeleted
    /\ stopped' = TRUE
    /\ error' = "none"
    /\ Record("stop", "none", StopPlatform)
    /\ UNCHANGED <<pages, config, cursor, message, shown, nSent, pc, lastText>>

\* somebody deletes the bound message on the platform
ExternalDelete ==
    /\ UNCHANGED <<fieldside, concurrent>>
    /\ pc = "waiting"
    /\ message # NoMessage
    /\ ~deleted
    /\ deleted' = TRUE
    /\ error' = "none"
    /\ Record("external_delete", "none", <<>>)
    /\ UNCHANGED <<pages, config, cursor, is_active, message, shown, nSent,
                   stopped, pc, lastText>>

----------------------------------------------------------------------------
(* Two sessions on one bot *)

\* the instance attributes of the session in focus, set in __init__
Attributes ==
    [pages |-> pages, category |-> category, current |-> current,
     is_active |-> is_active, message |-> message,
     delete_message |-> delete_message, initial_embed |-> initial_embed,
     max_size |-> max_size, separator |-> separator, pc |-> pc,
     deleted |-> deleted, shown |-> shown, nSent |-> nSent,
     stopped |-> stopped]

\* the event loop leaves the coroutine of one session at its await and
\* resumes the coroutine of the other session
Switch ==
    /\ focus' = 3 - focus
    /\ other' = Attributes
    /\ pages' = other.pages
    /\ category' = other.category
    /\ current' = other.current
    /\ is_active' = other.is_active
    /\ message' = other.message
    /\ delete_message' = other.delete_message
    /\ initial_embed' = other.initial_embed
    /\ max_size' = other.max_size
    /\ separator' = other.separator
    /\ pc' = other.pc
    /\ deleted' = other.deleted
    /\ shown' = other.shown
    /\ nSent' = other.nSent
    /\ stopped' = other.stopped
    /\ UNCHANGED <<error, lastOp, lastEmoji, lastText, prevCategory,
                   prevCurrent, prevActive, calls, fieldside, inbox>>

\* the messages a reaction can be added to: the bound message of either
\* session and another message
BoundMessages == {message, other.message} \ {NoMessage}

\* the bot dispatches one reaction_add event to the wait_for of both sessions
Dispatch(emoji, user, msg) ==
    /\ inbox = {}
    /\ inbox' = {[emoji |-> emoji, user |-> user, msg |-> msg, to |-> to] :
                    to \in {1, 2}}
    /\ UNCHANGED <<pages, config, cursor, session, error, lastOp, lastEmoji,
                   lastText, prevCategory, prevCurrent, prevActive, calls,
                   fieldside, other, focus>>

\* the session in focus gets a dispatched event: its wait_for runs _check and
\* the loop of start() handles the event; an event for a session that is not
\* waiting has no listener
Consume(event) ==
    /\ event \in inbox
    /\ event.to = focus
    /\ inbox' = inbox \ {event}
    /\ UNCHANGED <<fieldside, other, focus>>
    /\ IF pc = "waiting"
       THEN Receive(event.emoji, event.user, event.msg)
       ELSE UNCHANGED <<pages, config, cursor, session, error, lastOp,
                        lastEmoji, lastText, prevCategory, prevCurrent,
                        prevActive, calls>>

----------------------------------------------------------------------------
(* Specifications *)

\* page size of the paginators that run a session
NavSize == 1

\* FieldPaginator.max_count when the kwarg is not given
DefaultMaxCount == 25

\* no FieldPaginator input yet, no second session
InitAlone ==
    /\ lastFields = <<>>
    /\ other = <<>>
    /\ focus = 1
    /\ inbox = {}

InitHistory ==
    /\ error = "none"
    /\ stopped = FALSE
    /\ lastOp = "init"
    /\ lastEmoji = "none"
    /\ lastText = <<>>
    /\ prevCategory = 0
    /\ prevCurrent = 0
    /\ prevActive = FALSE
    /\ calls = <<>>

\* _PaginatorBase.__init__ and TextPaginator.__init__
Init ==
    /\ max_count = DefaultMaxCount
    /\ InitAlone
    /\ pages = <<>>
    /\ category = 0
    /\ current = 0
    /\ is_active = FALSE
    /\ message \in {NoMessage, GivenMessage}
    /\ delete_message \in BOOLEAN
    /\ initial_embed \in BOOLEAN
    /\ max_size = NavSize
    /\ separator = <<NL>>
    /\ pc = "idle"
    /\ deleted = FALSE
    /\ shown = NoEmbed
    /\ nSent = 0
    /\ InitHistory

Next ==
    \/ \E text \in NavTexts : add_category(text, "A", "F")
    \/ \E data \in NavDicts : add_from_dict(data)
    \/ start
    \/ \E emoji \in EventEmojis, user \in Users, msg \in EventMessages :
            ReactionAdd(emoji, user, msg)
    \/ Timeout
    \/ stop
    \/ ExternalDelete

Spec == Init /\ [][Next]_vars

\* a TextPaginator of any page size and separator, no session
InitCut ==
    /\ max_count = DefaultMaxCount
    /\ InitAlone
    /\ pages = <<>>
    /\ category = 0
    /\ current = 0
    /\ is_active = FALSE
    /\ message = NoMessage
    /\ delete_message = FALSE
    /\ initial_embed = FALSE
    /\ max_size \in 1..MaxSize
    /\ separator \in Separators
    /\ pc = "idle"
    /\ deleted = FALSE
    /\ shown = NoEmbed
    /\ nSent = 0
    /\ InitHistory

\* one add_category of any text
NextCut == \E text \in Texts : _count = 0 /\ add_category(text, "A", "F")

SpecCut == InitCut /\ [][NextCut]_vars

\* a TextPaginator with the page size of the sessions, before start()
InitReg ==
    /\ max_count = DefaultMaxCount
    /\ InitAlone
    /\ pages = <<>>
    /\ category = 0
    /\ current = 0
    /\ is_active = FALSE
    /\ message = NoMessage
    /\ delete_message = FALSE
    /\ initial_embed = FALSE
    /\ max_size = NavSize
    /\ separator = <<NL>>
    /\ pc = "idle"
    /\ deleted = FALSE
    /\ shown = NoEmbed
    /\ nSent = 0
    /\ InitHistory

\* any sequence of registrations
NextReg ==
    \/ \E text \in RegTexts : add_category(text, "A", "F")
    \/ \E embed \in NavEmbeds : add_embed(embed)
    \/ \E data \in NavDicts : add_from_dict(data)

SpecReg == InitReg /\ [][NextReg]_vars

\* a FieldPaginator of any max_count, before start()
InitFields ==
    /\ max_count \in 1..MaxCount
    /\ InitAlone
    /\ pages = <<>>
    /\ category = 0
    /\ current = 0
    /\ is_active = FALSE
    /\ message = NoMessage
    /\ delete_message = FALSE
    /\ initial_embed = FALSE
    /\ max_size = NavSize
    /\ separator = <<NL>>
    /\ pc = "idle"
    /\ deleted = FALSE
    /\ shown = NoEmbed
    /\ nSent = 0
    /\ InitHistory

\* any sequence of FieldPaginator registrations
NextFields ==
    \/ \E f \in FieldLists : FieldPaginator_add_category(f, "A", "F")
    \/ \E f \in FieldLists :
          FieldPaginator_add_embed([title |-> "A", footer |-> "F", fields |-> f])
    \/ \E data \in FieldDicts : FieldPaginator_add_from_dict(data)

SpecFields == InitFields /\ [][NextFields]_vars

\* the category both sessions have registered: add_category of a text of
\* three pages
TwoPages ==
    DictSet(<<>>, <<"A", "F", 0>>,
            cut_text(<<"a", NL, "a", NL, "a">>, <<NL>>, NavSize).appended)

\* two TextPaginators of the same author before start(): session 1 sends
\* its message, session 2 is given the message to bind
InitTwo ==
    /\ max_count = DefaultMaxCount
    /\ lastFields = <<>>
    /\ focus = 1
    /\ inbox = {}
    /\ pages = TwoPages
    /\ category = 0
    /\ current = 0
    /\ is_active = FALSE
    /\ message = NoMessage
    /\ delete_message = FALSE
    /\ initial_embed = FALSE
    /\ max_size = NavSize
    /\ separator = <<NL>>
    /\ pc = "idle"
    /\ deleted = FALSE
    /\ shown = NoEmbed
    /\ nSent = 0
    /\ InitHistory
    /\ other = [pages |-> TwoPages, category |-> 0, current |-> 0,
                is_active |-> FALSE, message |-> GivenMessage,
                delete_message |-> FALSE, initial_embed |-> FALSE,
                max_size |-> NavSize, separator |-> <<NL>>, pc |-> "idle",
                deleted |-> FALSE, shown |-> NoEmbed, nSent |-> 0,
                stopped |-> FALSE]

\* the emojis of the events dispatched to two sessions
TwoEmojis == {"next", "stop"}

NextTwo ==
    \/ start
    \/ \E emoji \in TwoEmojis, user \in Users,
          msg \in BoundMessages \cup {CtxMessage} : Dispatch(emoji, user, msg)
    \/ \E event \in inbox : Consume(event)
    \/ Switch
    \/ Timeout
    \/ stop

SpecTwo == InitTwo /\ [][NextTwo]_vars

----------------------------------------------------------------------------
(* Claims *)

\* C1 (as stated): with at least one category registered, the cursor is
\* always in range: 0 <= category < number of categories and
\* 0 <= current < number of pages of the category at index category.
C1_CursorInRange ==
    _count >= 1 =>
        /\ 0 <= category
        /\ category < _count
        /\ 0 <= current
        /\ current < Len(PageList(category))

\* C2 (as stated): an accepted first-category emoji with category > 0 sets
\* the cursor to (0, 0), and an accepted last-category emoji with
\* category < categoryCount-1 sets it to (categoryCount-1, 0).
C2_JumpToExtremeCategory ==
    /\ (lastOp = "reaction" /\ lastEmoji = "top" /\ prevCategory > 0)
          => (category = 0 /\ current = 0)
    /\ (lastOp = "reaction" /\ lastEmoji = "end" /\ prevCategory < _count - 1)
          => (category = _count - 1 /\ current = 0)

\* C3 (as stated): pagination() with the previous-page or next-page emoji
\* raises no error, leaves category and is_active unchanged, and moves
\* current by one step inside the category, or not at all at its first or
\* last page.
C3_PageStepAnyNavigator ==
    (lastOp = "reaction" /\ lastEmoji \in {"previous", "next"}) =>
        /\ error # "pagination:IndexError"
        /\ category = prevCategory
        /\ is_active = prevActive

\* C3 (amended): for a navigator with at least one category registered,
\* pagination() with the previous-page emoji sets current to current-1 when
\* current > 0 and is a no-op when current = 0; with the next-page emoji it
\* sets current to current+1 when current < pageCount(category)-1 and is a
\* no-op at the last page; category and is_active are unchanged and
\* pagination() raises no error.
C3_PageStepClamped ==
    (_count >= 1 /\ lastOp = "reaction" /\ lastEmoji \in {"previous", "next"}) =>
        /\ error # "pagination:IndexError"
        /\ category = prevCategory
        /\ is_active = prevActive
        /\ lastEmoji = "previous" =>
              current = IF prevCurrent > 0 THEN prevCurrent - 1 ELSE prevCurrent
        /\ lastEmoji = "next" =>
              current = IF prevCurrent < Len(PageList(prevCategory)) - 1
                        THEN prevCurrent + 1 ELSE prevCurrent

\* C3 witness: the next-page emoji was accepted at the last page of a
\* category of several pages and the cursor stayed where it was.
C3_Witness ==
    /\ _count >= 1
    /\ lastOp = "reaction"
    /\ lastEmoji = "next"
    /\ prevCurrent >= 1
    /\ prevCurrent = Len(PageList(prevCategory)) - 1
    /\ current = prevCurrent
    /\ category = prevCategory

\* C4 (as stated): once stop() has completed, no later step changes
\* category, current or is_active, and no further event is processed
\* (processing an event re-renders and sends).
C4_StoppedIsTerminal ==
    [][stopped => UNCHANGED <<category, current, is_active, nSent>>]_vars

\* C5 (as stated): after an accepted stop action the only platform call is
\* the cleanup stop() makes, as after an idle timeout: no reaction is
\* removed, no embed is generated, no message is sent.
C5_StopActionOnlyCleansUp ==
    (lastOp = "reaction" /\ lastEmoji = "stop" /\ error # "pagination:IndexError")
        => calls = StopPlatform

\* C6 (as stated): stop() on a session that is already stopped leaves the
\* session state unchanged and makes no platform call.
C6_StopIdempotent ==
    [][(stopped /\ stop) =>
          (calls' = <<>> /\ UNCHANGED <<cursor, session>>)]_vars

\* C7 (as stated): every re-render after an accepted non-stop action is
\* displayed in the bound message and no additional message is sent.
C7_RerenderInBoundMessage ==
    (lastOp = "reaction" /\ lastEmoji # "stop" /\ error = "none") =>
        /\ shown = <<category, current>>
        /\ \A i \in 1..Len(calls) : calls[i][1] # "send"

\* C8: a wait that times out runs stop() once (its one cleanup call),
\* leaves is_active false and start() returned; a start() that has returned
\* never waits again and an inactive returned session stays inactive.
C8_TimeoutStops ==
    [][/\ lastOp' = "timeout" =>
             /\ ~is_active'
             /\ pc' = "returned"
             /\ stopped'
             /\ error' = "none"
             /\ calls' = StopPlatform
             /\ Len(calls') <= 1
       /\ pc = "returned" => (pc' = "returned" /\ (~is_active => ~is_active'))
      ]_vars

\* C8 witness: the wait of an active session timed out, stop() made its
\* cleanup call and start() has returned.
C8_Witness ==
    /\ lastOp = "timeout"
    /\ prevActive
    /\ ~is_active
    /\ pc = "returned"
    /\ Len(calls) = 1

\* C9: a reaction event is handled only if its emoji is one of the five
\* configured emojis, its user is the context author and its message is
\* the bound message; every other event is ignored without error and
\* leaves category, current and is_active unchanged.
C9_OnlyFilteredEventsAccepted ==
    [][\A emoji \in EventEmojis, user \in Users, msg \in EventMessages :
          (lastEmoji' = emoji /\ ReactionAdd(emoji, user, msg)) =>
              IF /\ emoji \in {"top", "previous", "stop", "next", "end"}
                 /\ user = "author"
                 /\ message # NoMessage
                 /\ msg = message
              THEN lastOp' = "reaction"
              ELSE /\ lastOp' = "ignored"
                   /\ error' = "none"
                   /\ pc' = "waiting"
                   /\ UNCHANGED <<category, current, is_active>>
      ]_vars

\* C9 witness: an event carrying a configured emoji was ignored (wrong user
\* or wrong message) while the session was waiting away from (0, 0).
C9_Witness ==
    /\ lastOp = "ignored"
    /\ lastEmoji = "next"
    /\ pc = "waiting"
    /\ is_active
    /\ current = 1

\* C10 (as stated): when cut_text returns, joining the pages it appended,
\* in order, with the separator yields exactly the stripped input.
C10_RoundTrip ==
    (lastOp = "add_category" /\ error = "none") =>
        Join(PageList(0), separator) = Strip(lastText)

\* C11 (as stated): cut_text finishes on every input, with pages or with
\* an explicit error, and never recurses on a remainder that does not
\* shrink until the interpreter gives up.
C11_CutTextTerminates ==
    lastOp = "add_category" => error # "cut_text:RecursionError"

\* C12 (as stated): no page produced by cut_text can be merged with the
\* page that follows it without exceeding max_size, and a text whose
\* stripped length is at most max_size produces a single page.
C12_GreedyMaximality ==
    (lastOp = "add_category" /\ error = "none") =>
        /\ \A i \in 1..(Len(PageList(0)) - 1) :
              Len(PageList(0)[i]) + Len(separator) + Len(PageList(0)[i + 1])
                  > max_size
        /\ Len(Strip(lastText)) <= max_size => Len(PageList(0)) = 1

\* C13: when cut_text returns, every page it appended has length at most
\* max_size.
C13_PagesFitMaxSize ==
    (lastOp = "add_category" /\ error = "none") =>
        \A i \in 1..Len(PageList(0)) : Len(PageList(0)[i]) <= max_size

\* C13 witness: a text longer than max_size was cut into at least three
\* pages, one of them exactly max_size long.
C13_Witness ==
    /\ lastOp = "add_category"
    /\ error = "none"
    /\ Len(Strip(lastText)) > max_size
    /\ Len(PageList(0)) >= 3
    /\ max_size >= 2
    /\ \E i \in 1..Len(PageList(0)) : Len(PageList(0)[i]) = max_size

\* C17 (as stated): a session whose bound message is already gone and that
\* is ended by the idle timeout, by stop() or by the stop action ends with
\* is_active false and without the platform's NotFound escaping start().
C17_CleanupOnGoneMessageBenign ==
    [][(/\ deleted
        /\ _count >= 1
        /\ \/ lastOp' = "timeout"
           \/ lastOp' = "stop"
           \/ (lastOp' = "reaction" /\ lastEmoji' = "stop"))
          => (~is_active' /\ error' # "remove_reaction:NotFound")]_vars

\* C20 (as stated): whenever start() has returned normally, is_active is
\* false.
C20_ReturnedImpliesInactive ==
    pc = "returned" => ~is_active

\* C15: every registration keeps the earlier categories as they were and
\* in place, and the ordinal in the key of the category at index i is i:
\* keys are distinct even for identical titles and footers and the index
\* order of _get_page is the insertion order.
C15_CategoriesDistinctOrdered ==
    [][/\ Len(pages') >= Len(pages)
       /\ \A i \in 1..Len(pages) : pages'[i] = pages[i]
       /\ \A i \in 1..Len(pages') : pages'[i].key[3] = i - 1
       /\ \A i, j \in 1..Len(pages') :
             pages'[i].key = pages'[j].key => i = j
      ]_vars

\* C15 witness: three categories are registered, the first two with the
\* same title and footer.
C15_Witness ==
    /\ _count = 3
    /\ _get_page(0)[1] = _get_page(1)[1]
    /\ _get_page(0)[2] = _get_page(1)[2]
    /\ _get_page(0) # _get_page(1)
    /\ lastOp \in {"add_category", "add_embed", "add_from_dict"}

\* C16 (as stated): registering an embed with neither title nor
\* description fails with a validation error, and after any failed
\* registration the category mapping is what it was before the call.
C16_FailedRegistrationAborts ==
    [][/\ \A embed \in NavEmbeds :
             (add_embed(embed) /\ ~embed.hasDescription /\ embed.title = "Empty")
                 => error' = "ValidationError"
       /\ (lastOp' \in {"add_category", "add_embed", "add_from_dict"}
             /\ error' # "none") => pages' = pages
      ]_vars

\* C14 (as stated, for a non-empty field list): split_fields stores
\* ceil(n/C) groups for the category, entry i is in group floor(i/C) at
\* offset i mod C, so the groups in order reproduce the list.
C14_FieldsPartitioned ==
    (/\ lastOp \in {"FieldPaginator.add_embed", "FieldPaginator.add_from_dict"}
     /\ error = "none"
     /\ Len(lastFields) >= 1) =>
        LET groups == PageList(_count - 1)
            n == Len(lastFields)
        IN  /\ Len(groups) = (n + max_count - 1) \div max_count
            /\ \A i \in 0..(n - 1) :
                  /\ Len(groups[(i \div max_count) + 1]) = 1
                  /\ Len(groups[(i \div max_count) + 1][1]) > i % max_count
                  /\ groups[(i \div max_count) + 1][1][(i % max_count) + 1]
                        = lastFields[i + 1]

\* C19 (as stated): split_fields terminates for every field list and every
\* max_count >= 1.
C19_SplitFieldsTerminates ==
    lastOp \in {"FieldPaginator.add_embed", "FieldPaginator.add_from_dict"}
        => error # "split_fields:RecursionError"

\* C18: with two sessions running concurrently on distinct bound messages,
\* the category, current, is_active and pages of a session change only in
\* a step of that session, and when that step handles a reaction event the
\* event is on that session's own bound message: nothing one session
\* accepts or stops changes the other.
C18_SessionsIsolated ==
    [][\A s \in {1, 2} :
          LET before == IF focus = s THEN Attributes ELSE other
              after  == IF focus' = s THEN Attributes' ELSE other'
          IN  (\/ after.category # before.category
               \/ after.current # before.current
               \/ after.is_active # before.is_active
               \/ after.pages # before.pages)
                 => /\ focus = s
                    /\ focus' = s
                    /\ \A event \in inbox \ inbox' : event.msg = message
      ]_vars

\* C18 witness: both sessions wait on different bound messages; the session
\* in focus has ignored the next-page event that moved the other session to
\* its second page.
C18_Witness ==
    /\ other # <<>>
    /\ inbox = {}
    /\ lastOp = "ignored"
    /\ lastEmoji = "next"
    /\ pc = "waiting"
    /\ is_active
    /\ current = 0
    /\ message # NoMessage
    /\ other.pc = "waiting"
    /\ other.message # NoMessage
    /\ other.message # message
    /\ other.current = 1

====
